---- MODULE Spec2Model ----
(***************************************************************************)
(* The slot allocation and admission-control engine of the parking server: *)
(* the employee routes (server/routes/employee.js) and the booking routes  *)
(* (server/routes/general.js).                                             *)
(*                                                                         *)
(* Every route handler is a sequence of awaited dbQuery calls.  A handler  *)
(* is modelled as a small program: one step per awaited statement together *)
(* with the synchronous code that follows it up to the next await.  The    *)
(* "transaction" wrapper of employee.js only calls its callback and        *)
(* rethrows, so every statement commits on its own.                        *)
(*                                                                         *)
(*   Spec      handlers run one at a time, each to completion              *)
(*   SpecBook  the booking routes alone, over every window of a time grid  *)
(*   SpecStmt  handlers of two clients interleave statement by statement,  *)
(*             and a statement may throw                                   *)
(*   SpecLot   bookings of one window pile up on lots of many sizes        *)
(*   SpecAdmin drive-up traffic while the administrator edits the capacity *)
(*   SpecCost  drive-up stays of every length in minutes, billed           *)
(*   SpecSites two locations, each served by its own employee              *)
(*   SpecMissed bookings whose window ends while nobody checks in          *)
(*   SpecDrain the parked vehicles are checked out, no more come in        *)
(***************************************************************************)
EXTENDS Integers, Sequences, FiniteSets, TLC

VARIABLES
    db,           \* the database: [locs, bookings, sessions, rate]
    now,          \* the wall clock, in minutes
    reqs          \* client -> its request: in flight, answered ("done") or none ("idle")

vars == <<db, now, reqs>>

locs        == db.locs      \* parking_locations: id -> [total_slots, available_slots]
bookings    == db.bookings  \* bookings table, a sequence; the row id is the index
sessions    == db.sessions  \* vehicle_sessions table, a sequence; the row id is the index
hourly_rate == db.rate      \* settings.hourly_rate, in currency subunits per hour

(***************************************************************************)
(* Bounds of the model.                                                    *)
(***************************************************************************)
MaxSlots    == 2     \* total_slots of a location ranges over 1..MaxSlots
MaxBookings == 1     \* rows the bookings table may hold
MaxSessions == 2     \* rows the vehicle_sessions table may hold
MaxLedger   == 2     \* rows either table may hold in SpecBook
MaxLotTens  == 9     \* the lots of SpecLot have 10, 20, ..., 10 * MaxLotTens slots
MaxTicks    == 1     \* the clock advances at most this many times
TickMinutes == 30    \* minutes per clock advance
MaxStayMinutes == 33 \* longest stay billed in SpecCost

(***************************************************************************)
(* Program constants.                                                      *)
(***************************************************************************)
Null                    == -1    \* SQL NULL in a time, cost or id column
BookingThresholdPercent == 70    \* bookingThresholdPercent = 0.70
LimbBits                == 13    \* bits per limb of the double arithmetic
MantissaBits            == 53    \* significand of a double, Number in JavaScript
MinBillMinutes          == 15    \* Math.max(0.25, hours)
HourMinutes             == 60    \* 1000 * 60 * 60 ms, and dayjs().add(1, 'hour')
SetupHourlyRate         == 5000  \* INSERT INTO settings ... 50.00

Locations == {1}
Users     == {"u1", "u2"}
Clients   == {1, 2}

Max(a, b) == IF a >= b THEN a ELSE b
Min(a, b) == IF a <= b THEN a ELSE b
CeilDiv(a, b) == (a + b - 1) \div b

\* licensePlate.toUpperCase().trim() on the plates the model feeds in
CleanPlate(p) ==
    CASE p = "p1"  -> "P1"
      [] p = "p2"  -> "P2"
      [] p = " P2" -> "P2"
      [] OTHER     -> p

\* !licensePlate || licensePlate.trim() === ''
PlateMissing(p) == p = "" \/ CleanPlate(p) = ""

\* the largest power of two not above k (k >= 1): the binade of the double holding k
RECURSIVE Pow2Below(_)
Pow2Below(k) == IF k < 2 THEN 1 ELSE 2 * Pow2Below(k \div 2)

\* mutant: a capacity that is never below one booking
BookingCapacity_AtLeastOne(total) == Max(1, (total * BookingThresholdPercent) \div 100)

\* Math.floor(location.total_slots * bookingThresholdPercent), in the doubles
\* JavaScript computes with.  0.70 is stored as 0.7 - 0.4 * 2^-53, so the exact
\* product is 0.7 * total - 0.4 * total * 2^-53.  When 0.7 * total is an integer k
\* in [2^e, 2^(e+1)), the product rounds (to nearest, ties to even) back to k only
\* if that deficit is at most half a unit in the last place, 2^(e-53), that is if
\* 4 * total <= 10 * 2^e; otherwise it stays just below k and the floor is k - 1
\* (total_slots = 90: 62.99999999999999, floor 62).  When 0.7 * total is not an
\* integer it is at least 0.1 away from one and the floor is the exact one.
BookingCapacity(total) ==
    LET exact == (total * BookingThresholdPercent) \div 100
    IN  IF /\ (total * BookingThresholdPercent) % 100 = 0
           /\ exact > 0
           /\ 4 * total > 10 * Pow2Below(exact)
        THEN exact - 1
        ELSE exact

(***************************************************************************)
(* The doubles of JavaScript, as far as the cost computation needs them.   *)
(* A natural number is a little-endian sequence of limbs; a positive       *)
(* double is [m, e] with value m * 2^e and m of at most MantissaBits bits. *)
(* Every operation rounds to nearest, ties to even, as IEEE 754 does.      *)
(***************************************************************************)
Limb == 2 ^ LimbBits

RECURSIVE ToBig(_)
ToBig(n) == IF n = 0 THEN <<>> ELSE <<n % Limb>> \o ToBig(n \div Limb)

RECURSIVE FromBig(_)
FromBig(N) == IF N = <<>> THEN 0 ELSE N[1] + Limb * FromBig(Tail(N))

RECURSIVE Trim(_)
Trim(N) ==
    IF N # <<>> /\ N[Len(N)] = 0 THEN Trim(SubSeq(N, 1, Len(N) - 1)) ELSE N

RECURSIVE BitLen(_)
BitLen(n) == IF n = 0 THEN 0 ELSE 1 + BitLen(n \div 2)

BigBitLen(N) ==
    LET T == Trim(N)
    IN  IF T = <<>> THEN 0 ELSE LimbBits * (Len(T) - 1) + BitLen(T[Len(T)])

\* N * k + c for a number k of at most one limb
RECURSIVE MulSmall(_, _, _)
MulSmall(N, k, c) ==
    IF N = <<>> THEN ToBig(c)
    ELSE LET v == N[1] * k + c
         IN  <<v % Limb>> \o MulSmall(Tail(N), k, v \div Limb)

RECURSIVE BigAdd(_, _, _)
BigAdd(A, B, c) ==
    IF A = <<>> /\ B = <<>> THEN ToBig(c)
    ELSE LET a == IF A = <<>> THEN 0 ELSE A[1]
             b == IF B = <<>> THEN 0 ELSE B[1]
             v == a + b + c
         IN  <<v % Limb>> \o BigAdd(IF A = <<>> THEN <<>> ELSE Tail(A),
                                    IF B = <<>> THEN <<>> ELSE Tail(B), v \div Limb)

RECURSIVE BigMul(_, _)
BigMul(A, B) ==
    IF B = <<>> THEN <<>>
    ELSE BigAdd(MulSmall(A, B[1], 0), <<0>> \o BigMul(A, Tail(B)), 0)

\* quotient and remainder of N by a small d, from the top limb down
RECURSIVE DivSmall(_, _)
DivSmall(N, d) ==
    IF N = <<>> THEN [q |-> <<>>, r |-> 0]
    ELSE LET hi == DivSmall(Tail(N), d)
             v  == hi.r * Limb + N[1]
         IN  [q |-> <<v \div d>> \o hi.q, r |-> v % d]

\* N / 2^k rounded to nearest, ties to even; sticky tells that N itself was
\* truncated from a larger value
RoundShift(N, k, sticky) ==
    LET a       == k \div LimbBits
        b       == k % LimbBits
        S       == MulSmall(N, 2 ^ (LimbBits - b), 0) \o [i \in 1..(a + 1) |-> 0]
        kept    == Trim(SubSeq(S, a + 2, Len(S)))
        top     == S[a + 1]
        guard   == top >= Limb \div 2
        rest    == top % (Limb \div 2) # 0 \/ (\E i \in 1..a : S[i] # 0) \/ sticky
        odd     == kept # <<>> /\ kept[1] % 2 = 1
    IN  IF guard /\ (rest \/ odd) THEN BigAdd(kept, <<1>>, 0) ELSE kept

Normalize(N, sticky, e) ==
    LET L == BigBitLen(N)
        k == IF L > MantissaBits THEN L - MantissaBits ELSE 0
    IN  [m |-> Trim(RoundShift(N, k, sticky)), e |-> e + k]

\* the double nearest to n / d: parseFloat of a decimal, or a division
FloatOfRatio(n, d) ==
    LET qr == DivSmall(<<0, 0, 0, 0, 0, 0>> \o ToBig(n), d)
    IN  Normalize(qr.q, qr.r # 0, -(6 * LimbBits))

FloatTimes(x, y) == Normalize(BigMul(x.m, y.m), FALSE, x.e + y.e)

\* Math.ceil of a positive double below 2^31
CeilOfFloat(z) ==
    IF z.e >= 0 THEN FromBig(z.m) * 2 ^ z.e
    ELSE LET k    == -z.e
             a    == k \div LimbBits
             low  == SubSeq(z.m, 1, Min(a, Len(z.m)))
             qr   == DivSmall(SubSeq(z.m, Min(a, Len(z.m)) + 1, Len(z.m)),
                              2 ^ (k % LimbBits))
             frac == qr.r # 0 \/ \E i \in DOMAIN low : low[i] # 0
         IN  FromBig(Trim(qr.q)) + (IF frac THEN 1 ELSE 0)

\* durationHours = durationMs > 0 ? Math.max(0.25, durationMs / 3600000) : 0;
\* if (hourlyRate > 0 && durationHours > 0) cost = Math.ceil(durationHours *
\* hourlyRate * 100) / 100.  Minutes in, subunits out; rate is the DECIMAL
\* hourly_rate in subunits, read by parseFloat.
\* When minutes * rate is not a multiple of 60 the exact cost lies at least 1/60
\* of a subunit from every integer, which the four roundings (2^-53 relative
\* each) cannot bridge, and Math.ceil returns the exact ceiling; only when the
\* exact cost is a whole number of subunits do the doubles decide the result.
CostOf(entry, exit, rate) ==
    LET durationMin   == exit - entry
        billed        == Max(MinBillMinutes, durationMin)
        durationHours == FloatOfRatio(billed, HourMinutes)
        hourlyRate    == FloatOfRatio(rate, 100)
        cost          == FloatTimes(durationHours, hourlyRate)
    IN  IF rate > 0 /\ durationMin > 0
        THEN IF (billed * rate) % HourMinutes # 0
             THEN CeilDiv(billed * rate, HourMinutes)
             ELSE CeilOfFloat(FloatTimes(cost, FloatOfRatio(100, 1)))
        ELSE 0

(***************************************************************************)
(* Statements: each takes the database d and returns the database it       *)
(* leaves.                                                                 *)
(***************************************************************************)
\* ... FROM vehicle_sessions WHERE license_plate = ? AND parking_location_id = ? AND exit_time IS NULL
ActiveSessions(d, plate, loc) ==
    {i \in DOMAIN d.sessions :
        /\ d.sessions[i].license_plate = plate
        /\ d.sessions[i].parking_location_id = loc
        /\ d.sessions[i].exit_time = Null}

\* ... FROM vehicle_sessions WHERE booking_id = ? AND parking_location_id = ? AND exit_time IS NULL
OpenSessionsOfBooking(d, bid, loc) ==
    {i \in DOMAIN d.sessions :
        /\ d.sessions[i].booking_id = bid
        /\ d.sessions[i].parking_location_id = loc
        /\ d.sessions[i].exit_time = Null}

\* the half-open overlap test of the COUNT(*) query: start_time < ? AND end_time > ?
Overlaps(b, newStart, newEnd) == b.start_time < newEnd /\ b.end_time > newStart

ActiveStatus(s) == s \in {"confirmed", "checked-in"}

\* SELECT COUNT(*) FROM bookings WHERE parking_location_id = ? AND status IN (...) AND ...
OverlapCount(d, loc, newStart, newEnd) ==
    Cardinality({i \in DOMAIN d.bookings :
        /\ d.bookings[i].parking_location_id = loc
        /\ ActiveStatus(d.bookings[i].status)
        /\ Overlaps(d.bookings[i], newStart, newEnd)})

\* mutant: the decrement written with the wrong sign
DecrementSlots_WrongSign(d, loc) ==
    IF d.locs[loc].available_slots > 0
    THEN [d EXCEPT !.locs[loc].available_slots = @ + 1]
    ELSE d

\* mutant: the decrement without its available_slots > 0 guard
DecrementSlots_Unguarded(d, loc) ==
    [d EXCEPT !.locs[loc].available_slots = @ - 1]

\* UPDATE parking_locations SET available_slots = available_slots - 1 WHERE id = ? AND available_slots > 0
DecrementSlots(d, loc) ==
    IF d.locs[loc].available_slots > 0
    THEN [d EXCEPT !.locs[loc].available_slots = @ - 1]
    ELSE d

\* UPDATE parking_locations SET available_slots = LEAST(?, available_slots + 1) WHERE id = ?
IncrementSlots(d, loc, total) ==
    [d EXCEPT !.locs[loc].available_slots = Min(total, @ + 1)]

\* INSERT INTO vehicle_sessions (parking_location_id, license_plate, entry_time, booking_id, ...)
InsertSession(d, loc, plate, entry, bid) ==
    [d EXCEPT !.sessions = Append(@,
        [parking_location_id |-> loc, license_plate |-> plate, entry_time |-> entry,
         exit_time |-> Null, cost |-> Null, booking_id |-> bid])]

\* UPDATE vehicle_sessions SET exit_time = ?, cost = ?, ... WHERE id = ?
CloseSession(d, sid, exit, cost) ==
    [d EXCEPT !.sessions[sid].exit_time = exit, !.sessions[sid].cost = cost]

(***************************************************************************)
(* A request: the route, its inputs, the handler's local variables and the *)
(* place it has reached.  code is the HTTP status once it has answered.    *)
(***************************************************************************)
\* the fields of the booking-availability response; every other answer leaves them unset
NoBody ==
    [isBookable |-> FALSE, slotsAvailableForBooking |-> Null,
     bookingCapacityForLocation |-> Null, currentBookedCountInSlot |-> Null]

IdleReq ==
    [op |-> "none", pc |-> "idle", code |-> 0, loc |-> 0, user |-> "", bid |-> 0,
     sid |-> 0, plate |-> "", start |-> Null, end |-> Null, lpb |-> "",
     t |-> Null, total |-> 0, sbid |-> 0, entry |-> Null, cost |-> Null,
     orig |-> "", bloc |-> 0, avail |-> Null, body |-> NoBody]

Goto(r, d, pc)     == [r |-> [r EXCEPT !.pc = pc], d |-> d]
\* the handler answers: its local variables die, the response stays with the client
Answer(r, d, code) ==
    [r |-> [IdleReq EXCEPT !.op = r.op, !.pc = "done", !.code = code, !.loc = r.loc,
                           !.bid = r.bid, !.sid = r.sid, !.cost = r.cost],
     d |-> d]

\* ------------------------------------------------------------------------
\* POST /checkin: drive-up check-in by the employee of location r.loc
\* ------------------------------------------------------------------------
DriveUpCheckInReq(loc, plate) ==
    [IdleReq EXCEPT !.op = "driveUpCheckIn", !.pc = "ci_validate", !.loc = loc, !.plate = plate]

CI_Validate(r, d) ==
    IF PlateMissing(r.plate) THEN Answer(r, d, 400)
    ELSE Goto([r EXCEPT !.plate = CleanPlate(r.plate)], d, "ci_lock")

CI_Lock(r, d) ==
    IF d.locs[r.loc].available_slots <= 0 THEN Answer(r, d, 400)
    ELSE Goto(r, d, "ci_active")

\* mutant: the lookup of an open session of the plate is left out
CI_Active_NoLookup(r, d, t) == Goto([r EXCEPT !.t = t], d, "ci_insert")

CI_Active(r, d, t) ==
    IF ActiveSessions(d, r.plate, r.loc) # {} THEN Answer(r, d, 400)
    ELSE Goto([r EXCEPT !.t = t], d, "ci_insert")

CI_Insert(r, d) ==
    Goto([r EXCEPT !.sid = Len(d.sessions) + 1],
         InsertSession(d, r.loc, r.plate, r.t, 0), "ci_dec")

CI_Decrement(r, d) == Answer(r, DecrementSlots(d, r.loc), 201)

\* ------------------------------------------------------------------------
\* POST /checkout: check-out of vehicle session r.sid
\* ------------------------------------------------------------------------
DriveUpCheckOutReq(loc, sid) ==
    [IdleReq EXCEPT !.op = "driveUpCheckOut", !.pc = "co_validate", !.loc = loc, !.sid = sid]

\* !vehicleId || isNaN(parseInt(vehicleId, 10))
CO_Validate(r, d) == IF r.sid = 0 THEN Answer(r, d, 400) ELSE Goto(r, d, "co_session")

\* mutant: the exit_time check left out
CO_Session_NoExitCheck(r, d) ==
    IF r.sid \notin DOMAIN d.sessions \/ d.sessions[r.sid].parking_location_id # r.loc
    THEN Answer(r, d, 404)
    ELSE Goto([r EXCEPT !.entry = d.sessions[r.sid].entry_time,
                        !.sbid  = d.sessions[r.sid].booking_id], d, "co_total")

CO_Session(r, d) ==
    IF r.sid \notin DOMAIN d.sessions \/ d.sessions[r.sid].parking_location_id # r.loc
    THEN Answer(r, d, 404)
    ELSE IF d.sessions[r.sid].exit_time # Null THEN Answer(r, d, 400)
    ELSE Goto([r EXCEPT !.entry = d.sessions[r.sid].entry_time,
                        !.sbid  = d.sessions[r.sid].booking_id], d, "co_total")

CO_Total(r, d) == Goto([r EXCEPT !.total = d.locs[r.loc].total_slots], d, "co_rate")

CO_Rate(r, d, t) ==
    Goto([r EXCEPT !.t = t, !.cost = CostOf(r.entry, t, d.rate)], d, "co_close")

CO_Close(r, d) ==
    Goto(r, CloseSession(d, r.sid, r.t, r.cost), IF r.sbid # 0 THEN "co_booking" ELSE "co_inc")

\* UPDATE bookings SET status = 'completed', ... WHERE id = ? AND status = 'checked-in'
CO_Booking(r, d) ==
    Goto(r,
         IF r.sbid \in DOMAIN d.bookings /\ d.bookings[r.sbid].status = "checked-in"
         THEN [d EXCEPT !.bookings[r.sbid].status = "completed",
                        !.bookings[r.sbid].actual_exit_time = r.t,
                        !.bookings[r.sbid].final_cost = r.cost]
         ELSE d,
         "co_inc")

\* mutant: the check-out that does not give the slot back
CO_Increment_Skipped(r, d) == Answer(r, d, 200)

CO_Increment(r, d) == Answer(r, IncrementSlots(d, r.loc, r.total), 200)

\* ------------------------------------------------------------------------
\* POST /locations/bookings: a user books the window [start, end) at r.loc
\* ------------------------------------------------------------------------
CreateBookingReq(user, loc, start, end, lpb) ==
    [IdleReq EXCEPT !.op = "createBooking", !.pc = "cb_validate", !.user = user,
                    !.loc = loc, !.start = start, !.end = end, !.lpb = lpb]

\* missing fields; ETime.isBefore(STime) || STime.isBefore(dayjs())
CB_Validate(r, d, t) ==
    IF r.loc = 0 \/ r.start = Null \/ r.end = Null THEN Answer(r, d, 400)
    ELSE IF r.end < r.start \/ r.start < t THEN Answer(r, d, 400)
    ELSE Goto(r, d, "cb_location")

CB_Location(r, d) ==
    IF r.loc \notin DOMAIN d.locs THEN Answer(r, d, 404)
    ELSE Goto([r EXCEPT !.total = d.locs[r.loc].total_slots], d, "cb_count")

CB_Count(r, d) ==
    IF OverlapCount(d, r.loc, r.start, r.end) >= BookingCapacity(r.total)
    THEN Answer(r, d, 400)
    ELSE Goto(r, d, "cb_insert")

\* mutant: an admitted booking also takes a physical slot
CB_Insert_TakesSlot(r, d) ==
    Answer([r EXCEPT !.bid = Len(d.bookings) + 1],
           DecrementSlots(
               [d EXCEPT !.bookings = Append(@,
                   [user_id |-> r.user, parking_location_id |-> r.loc,
                    start_time |-> r.start, end_time |-> r.end, status |-> "confirmed",
                    license_plate_booked |-> r.lpb, checked_in_license_plate |-> "",
                    actual_entry_time |-> Null, actual_exit_time |-> Null,
                    final_cost |-> Null])], r.loc),
           201)

CB_Insert(r, d) ==
    Answer([r EXCEPT !.bid = Len(d.bookings) + 1],
           [d EXCEPT !.bookings = Append(@,
               [user_id |-> r.user, parking_location_id |-> r.loc,
                start_time |-> r.start, end_time |-> r.end, status |-> "confirmed",
                license_plate_booked |-> r.lpb, checked_in_license_plate |-> "",
                actual_entry_time |-> Null, actual_exit_time |-> Null,
                final_cost |-> Null])],
           201)

\* ------------------------------------------------------------------------
\* PATCH /locations/bookings/:bookingId/cancel: a user cancels a booking
\* ------------------------------------------------------------------------
CancelBookingByUserReq(user, bid) ==
    [IdleReq EXCEPT !.op = "cancelBookingByUser", !.pc = "cu_select", !.user = user, !.bid = bid]

CU_Select(r, d, t) ==
    IF r.bid \notin DOMAIN d.bookings THEN Answer(r, d, 404)
    ELSE IF d.bookings[r.bid].user_id # r.user THEN Answer(r, d, 403)
    ELSE IF d.bookings[r.bid].status # "confirmed"
            \/ d.bookings[r.bid].start_time < t + HourMinutes
         THEN Answer(r, d, 400)
    ELSE Goto(r, d, "cu_update")

\* UPDATE bookings SET status = 'cancelled' WHERE id = ?
SetCancelled(d, bid) ==
    IF bid \in DOMAIN d.bookings THEN [d EXCEPT !.bookings[bid].status = "cancelled"] ELSE d

CU_Update(r, d) == Answer(r, SetCancelled(d, r.bid), 200)

\* ------------------------------------------------------------------------
\* POST /bookings/:bookingId/checkin: the employee admits a booked vehicle
\* ------------------------------------------------------------------------
BookingCheckInReq(loc, bid, plate) ==
    [IdleReq EXCEPT !.op = "bookingCheckIn", !.pc = "bi_validate", !.loc = loc,
                    !.bid = bid, !.plate = plate]

BI_Validate(r, d) ==
    IF PlateMissing(r.plate) THEN Answer(r, d, 400)
    ELSE Goto([r EXCEPT !.plate = CleanPlate(r.plate)], d, "bi_booking")

BI_Booking(r, d) ==
    IF r.bid \in DOMAIN d.bookings
    THEN Goto([r EXCEPT !.orig = d.bookings[r.bid].status,
                        !.bloc = d.bookings[r.bid].parking_location_id], d, "bi_location")
    ELSE Goto([r EXCEPT !.orig = "absent"], d, "bi_location")

\* mutant: the physical-capacity check left out
BI_Location_NoSlotCheck(r, d, t) ==
    IF r.orig = "absent" THEN Answer(r, d, 404)
    ELSE IF r.bloc # r.loc THEN Answer(r, d, 403)
    ELSE IF r.orig # "confirmed" THEN Answer(r, d, 400)
    ELSE Goto([r EXCEPT !.t = t], d, "bi_insert")

BI_Location(r, d, t) ==
    IF r.orig = "absent" THEN Answer(r, d, 404)
    ELSE IF r.bloc # r.loc THEN Answer(r, d, 403)
    ELSE IF r.orig # "confirmed" THEN Answer(r, d, 400)
    ELSE IF d.locs[r.loc].available_slots <= 0 THEN Answer(r, d, 400)
    ELSE Goto([r EXCEPT !.t = t], d, "bi_insert")

BI_Insert(r, d) ==
    Goto([r EXCEPT !.sid = Len(d.sessions) + 1],
         InsertSession(d, r.loc, r.plate, r.t, r.bid), "bi_update")

\* UPDATE bookings SET status = 'checked-in', checked_in_license_plate = ?, ... WHERE id = ?
BI_Update(r, d) ==
    Goto(r,
         IF r.bid \in DOMAIN d.bookings
         THEN [d EXCEPT !.bookings[r.bid].status = "checked-in",
                        !.bookings[r.bid].checked_in_license_plate = r.plate,
                        !.bookings[r.bid].actual_entry_time = r.t]
         ELSE d,
         "bi_dec")

\* mutant: the booking check-in that leaves available_slots alone
BI_Decrement_Skipped(r, d) == Answer(r, d, 200)

BI_Decrement(r, d) == Answer(r, DecrementSlots(d, r.loc), 200)

\* ------------------------------------------------------------------------
\* POST /bookings/:bookingId/cancel-by-employee
\* ------------------------------------------------------------------------
CancelBookingByEmployeeReq(loc, bid) ==
    [IdleReq EXCEPT !.op = "cancelBookingByEmployee", !.pc = "ce_select", !.loc = loc, !.bid = bid]

\* mutant: the employee's location is not compared with the booking's
CE_Select_AnyLocation(r, d) ==
    IF r.bid \notin DOMAIN d.bookings THEN Answer(r, d, 404)
    ELSE IF d.bookings[r.bid].status \in {"cancelled", "completed", "checked-out"}
         THEN Answer(r, d, 400)
    ELSE Goto([r EXCEPT !.orig = d.bookings[r.bid].status], d, "ce_update")

CE_Select(r, d) ==
    IF r.bid \notin DOMAIN d.bookings THEN Answer(r, d, 404)
    ELSE IF d.bookings[r.bid].parking_location_id # r.loc THEN Answer(r, d, 403)
    ELSE IF d.bookings[r.bid].status \in {"cancelled", "completed", "checked-out"}
         THEN Answer(r, d, 400)
    ELSE Goto([r EXCEPT !.orig = d.bookings[r.bid].status], d, "ce_update")

CE_Update(r, d) ==
    IF r.orig = "checked-in" THEN Goto(r, SetCancelled(d, r.bid), "ce_total")
    ELSE Answer(r, SetCancelled(d, r.bid), 200)

CE_Total(r, d, t) == Goto([r EXCEPT !.total = d.locs[r.loc].total_slots, !.t = t], d, "ce_close")

\* mutant: the slot is given back whether or not a session was closed
CE_Close_AlwaysIncrement(r, d) ==
    LET hit == {i \in DOMAIN d.sessions :
                    d.sessions[i].booking_id = r.bid /\ d.sessions[i].exit_time = Null}
        d2  == [d EXCEPT !.sessions = [i \in DOMAIN d.sessions |->
                    IF i \in hit
                    THEN [d.sessions[i] EXCEPT !.exit_time = r.t, !.cost = 0]
                    ELSE d.sessions[i]]]
    IN  Goto(r, d2, "ce_inc")

\* mutant: the session is closed without writing cost = 0
CE_Close_NoCost(r, d) ==
    LET hit == {i \in DOMAIN d.sessions :
                    d.sessions[i].booking_id = r.bid /\ d.sessions[i].exit_time = Null}
        d2  == [d EXCEPT !.sessions = [i \in DOMAIN d.sessions |->
                    IF i \in hit
                    THEN [d.sessions[i] EXCEPT !.exit_time = r.t]
                    ELSE d.sessions[i]]]
    IN  IF hit # {} THEN Goto(r, d2, "ce_inc") ELSE Answer(r, d2, 200)

\* UPDATE vehicle_sessions SET exit_time = ?, cost = 0, ... WHERE booking_id = ? AND exit_time IS NULL
CE_Close(r, d) ==
    LET hit == {i \in DOMAIN d.sessions :
                    d.sessions[i].booking_id = r.bid /\ d.sessions[i].exit_time = Null}
        d2  == [d EXCEPT !.sessions = [i \in DOMAIN d.sessions |->
                    IF i \in hit
                    THEN [d.sessions[i] EXCEPT !.exit_time = r.t, !.cost = 0]
                    ELSE d.sessions[i]]]
    IN  IF hit # {} THEN Goto(r, d2, "ce_inc") ELSE Answer(r, d2, 200)

CE_Increment(r, d) == Answer(r, IncrementSlots(d, r.loc, r.total), 200)

\* ------------------------------------------------------------------------
\* POST /bookings/:bookingId/checkout
\* ------------------------------------------------------------------------
BookingCheckOutReq(loc, bid) ==
    [IdleReq EXCEPT !.op = "bookingCheckOut", !.pc = "bo_select", !.loc = loc, !.bid = bid]

BO_Select(r, d) ==
    IF r.bid \notin DOMAIN d.bookings \/ d.bookings[r.bid].parking_location_id # r.loc
    THEN Answer(r, d, 404)
    ELSE IF d.bookings[r.bid].status # "checked-in" THEN Answer(r, d, 400)
    ELSE Goto(r, d, "bo_session")

\* mutant: a missing session does not stop the check-out
BO_Session_NoSessionCheck(r, d) ==
    LET open == OpenSessionsOfBooking(d, r.bid, r.loc)
        sid  == CHOOSE i \in open : \A j \in open : i <= j
    IN  IF open = {} THEN Goto(r, d, "bo_booking")
        ELSE Goto([r EXCEPT !.sid = sid, !.entry = d.sessions[sid].entry_time], d, "bo_total")

\* const [session] = ...: the first row, taken in primary-key order
BO_Session(r, d) ==
    LET open == OpenSessionsOfBooking(d, r.bid, r.loc)
        sid  == CHOOSE i \in open : \A j \in open : i <= j
    IN  IF open = {} THEN Answer(r, d, 500)
        ELSE Goto([r EXCEPT !.sid = sid, !.entry = d.sessions[sid].entry_time], d, "bo_total")

BO_Total(r, d) == Goto([r EXCEPT !.total = d.locs[r.loc].total_slots], d, "bo_rate")

BO_Rate(r, d, t) ==
    Goto([r EXCEPT !.t = t, !.cost = CostOf(r.entry, t, d.rate)], d, "bo_close")

BO_Close(r, d) == Goto(r, CloseSession(d, r.sid, r.t, r.cost), "bo_booking")

\* UPDATE bookings SET status = 'completed', actual_exit_time = ?, final_cost = ?, ... WHERE id = ?
BO_Booking(r, d) ==
    Goto(r, [d EXCEPT !.bookings[r.bid].status = "completed",
                      !.bookings[r.bid].actual_exit_time = r.t,
                      !.bookings[r.bid].final_cost = r.cost], "bo_inc")

BO_Increment(r, d) == Answer(r, IncrementSlots(d, r.loc, r.total), 200)

(***************************************************************************)
(* One step of a handler: the statement at r.pc, executed at time t.       *)
(***************************************************************************)
\* ------------------------------------------------------------------------
\* GET /locations/:locationId/booking-availability: the read-only preview
\* ------------------------------------------------------------------------
BookingAvailabilityReq(loc, start, end) ==
    [IdleReq EXCEPT !.op = "checkAvailability", !.pc = "ba_validate", !.loc = loc,
                    !.start = start, !.end = end]

\* missing startTime or endTime; ETime.isBefore(STime)
BA_Validate(r, d) ==
    IF r.start = Null \/ r.end = Null THEN Answer(r, d, 400)
    ELSE IF r.end < r.start THEN Answer(r, d, 400)
    ELSE Goto(r, d, "ba_location")

BA_Location(r, d) ==
    IF r.loc \notin DOMAIN d.locs THEN Answer(r, d, 404)
    ELSE Goto([r EXCEPT !.total = d.locs[r.loc].total_slots], d, "ba_count")

\* mutant: canBook computed with <= instead of <
BA_Count_Inclusive(r, d) ==
    LET bookingCapacity == BookingCapacity(r.total)
        currentOverlappingBookings ==
            Cardinality({i \in DOMAIN d.bookings :
                /\ d.bookings[i].parking_location_id = r.loc
                /\ d.bookings[i].status \in {"confirmed", "checked-in"}
                /\ d.bookings[i].start_time < r.end
                /\ d.bookings[i].end_time > r.start})
        answer == Answer(r, d, 200)
    IN  [answer EXCEPT !.r.body =
            [isBookable |-> currentOverlappingBookings <= bookingCapacity,
             slotsAvailableForBooking |->
                 Max(0, bookingCapacity - currentOverlappingBookings),
             bookingCapacityForLocation |-> bookingCapacity,
             currentBookedCountInSlot |-> currentOverlappingBookings]]

\* SELECT COUNT(*) ... status IN ('confirmed', 'checked-in') AND start_time < ? AND
\* end_time > ?; canBook = count < bookingCapacity; res.json({...})
BA_Count(r, d) ==
    LET bookingCapacity == BookingCapacity(r.total)
        currentOverlappingBookings ==
            Cardinality({i \in DOMAIN d.bookings :
                /\ d.bookings[i].parking_location_id = r.loc
                /\ d.bookings[i].status \in {"confirmed", "checked-in"}
                /\ d.bookings[i].start_time < r.end
                /\ d.bookings[i].end_time > r.start})
        answer == Answer(r, d, 200)
    IN  [answer EXCEPT !.r.body =
            [isBookable |-> currentOverlappingBookings < bookingCapacity,
             slotsAvailableForBooking |->
                 Max(0, bookingCapacity - currentOverlappingBookings),
             bookingCapacityForLocation |-> bookingCapacity,
             currentBookedCountInSlot |-> currentOverlappingBookings]]

\* ------------------------------------------------------------------------
\* PUT /parking-location/:locationId: the administrator edits a location
\* ------------------------------------------------------------------------
UpdateParkingLocationReq(loc, totalSlots) ==
    [IdleReq EXCEPT !.op = "updateParkingLocation", !.pc = "au_validate", !.loc = loc,
                    !.total = totalSlots]

\* isNaN(totalSlots) is not modelled; totalSlots <= 0
AU_Validate(r, d) ==
    IF r.total <= 0 THEN Answer(r, d, 400) ELSE Goto(r, d, "au_select")

\* SELECT ... total_slots, available_slots; newAvailableSlots = totalSlots -
\* (total_slots - available_slots), clamped to 0..totalSlots
AU_Select(r, d) ==
    IF r.loc \notin DOMAIN d.locs THEN Answer(r, d, 404)
    ELSE LET currentOccupiedSlots ==
                 d.locs[r.loc].total_slots - d.locs[r.loc].available_slots
         IN  Goto([r EXCEPT !.avail = Max(0, Min(r.total, r.total - currentOccupiedSlots))],
                  d, "au_update")

\* UPDATE parking_locations SET ..., total_slots = ?, available_slots = ?, ... WHERE id = ?
AU_Update(r, d) ==
    Answer(r, [d EXCEPT !.locs[r.loc].total_slots = r.total,
                        !.locs[r.loc].available_slots = r.avail], 200)

Step(r, d, t) ==
    CASE r.pc = "ci_validate" -> CI_Validate(r, d)
      [] r.pc = "ci_lock"     -> CI_Lock(r, d)
      [] r.pc = "ci_active"   -> CI_Active(r, d, t)
      [] r.pc = "ci_insert"   -> CI_Insert(r, d)
      [] r.pc = "ci_dec"      -> CI_Decrement(r, d)
      [] r.pc = "co_validate" -> CO_Validate(r, d)
      [] r.pc = "co_session"  -> CO_Session(r, d)
      [] r.pc = "co_total"    -> CO_Total(r, d)
      [] r.pc = "co_rate"     -> CO_Rate(r, d, t)
      [] r.pc = "co_close"    -> CO_Close(r, d)
      [] r.pc = "co_booking"  -> CO_Booking(r, d)
      [] r.pc = "co_inc"      -> CO_Increment(r, d)
      [] r.pc = "cb_validate" -> CB_Validate(r, d, t)
      [] r.pc = "cb_location" -> CB_Location(r, d)
      [] r.pc = "cb_count"    -> CB_Count(r, d)
      [] r.pc = "cb_insert"   -> CB_Insert(r, d)
      [] r.pc = "cu_select"   -> CU_Select(r, d, t)
      [] r.pc = "cu_update"   -> CU_Update(r, d)
      [] r.pc = "bi_validate" -> BI_Validate(r, d)
      [] r.pc = "bi_booking"  -> BI_Booking(r, d)
      [] r.pc = "bi_location" -> BI_Location(r, d, t)
      [] r.pc = "bi_insert"   -> BI_Insert(r, d)
      [] r.pc = "bi_update"   -> BI_Update(r, d)
      [] r.pc = "bi_dec"      -> BI_Decrement(r, d)
      [] r.pc = "ce_select"   -> CE_Select(r, d)
      [] r.pc = "ce_update"   -> CE_Update(r, d)
      [] r.pc = "ce_total"    -> CE_Total(r, d, t)
      [] r.pc = "ce_close"    -> CE_Close(r, d)
      [] r.pc = "ce_inc"      -> CE_Increment(r, d)
      [] r.pc = "bo_select"   -> BO_Select(r, d)
      [] r.pc = "bo_session"  -> BO_Session(r, d)
      [] r.pc = "bo_total"    -> BO_Total(r, d)
      [] r.pc = "bo_rate"     -> BO_Rate(r, d, t)
      [] r.pc = "bo_close"    -> BO_Close(r, d)
      [] r.pc = "bo_booking"  -> BO_Booking(r, d)
      [] r.pc = "bo_inc"      -> BO_Increment(r, d)
      [] r.pc = "ba_validate" -> BA_Validate(r, d)
      [] r.pc = "ba_location" -> BA_Location(r, d)
      [] r.pc = "ba_count"    -> BA_Count(r, d)
      [] r.pc = "au_validate" -> AU_Validate(r, d)
      [] r.pc = "au_select"   -> AU_Select(r, d)
      [] r.pc = "au_update"   -> AU_Update(r, d)
      [] OTHER                -> [r |-> r, d |-> d]

\* the handler run from r.pc to its answer without interruption
RECURSIVE Run(_, _, _)
Run(r, d, t) ==
    IF r.pc \in {"done", "idle"} THEN [r |-> r, d |-> d]
    ELSE LET s == Step(r, d, t) IN Run(s.r, s.d, t)

Quiet == \A c \in Clients : reqs[c].pc = "idle"

\* the handler's effect is a step of the model when it changed the database and the
\* tables stay within maxB and maxS rows; a rejection changes nothing and is no step
Effect(d, maxB, maxS) ==
    /\ d # db
    /\ Len(d.bookings) <= maxB
    /\ Len(d.sessions) <= maxS

\* mutant: a clock whose advance cancels the confirmed bookings that have ended
Tick_ExpiresBookings ==
    /\ now < MaxTicks * TickMinutes
    /\ now' = now + TickMinutes
    /\ db' = [db EXCEPT !.bookings = [b \in DOMAIN db.bookings |->
                 IF db.bookings[b].status = "confirmed" /\ db.bookings[b].end_time <= now'
                 THEN [db.bookings[b] EXCEPT !.status = "cancelled"]
                 ELSE db.bookings[b]]]
    /\ UNCHANGED reqs

Tick ==
    /\ now < MaxTicks * TickMinutes
    /\ now' = now + TickMinutes
    /\ UNCHANGED <<db, reqs>>

EmptyDB(total) ==
    [locs     |-> [l \in Locations |-> [total_slots |-> total, available_slots |-> total]],
     bookings |-> <<>>, sessions |-> <<>>, rate |-> SetupHourlyRate]

(***************************************************************************)
(* The seven operations, each a whole handler run to its answer.  lim      *)
(* bounds the rows the tables may hold in the specification at hand.       *)
(***************************************************************************)
DriveUpCheckIn(lim, loc, plate) ==
    LET res == Run(DriveUpCheckInReq(loc, plate), db, now)
    IN  Quiet /\ Effect(res.d, lim.b, lim.s) /\ db' = res.d /\ UNCHANGED <<now, reqs>>

DriveUpCheckOut(lim, loc, sid) ==
    LET res == Run(DriveUpCheckOutReq(loc, sid), db, now)
    IN  Quiet /\ Effect(res.d, lim.b, lim.s) /\ db' = res.d /\ UNCHANGED <<now, reqs>>

CreateBooking(lim, u, loc, s, e, lpb) ==
    LET res == Run(CreateBookingReq(u, loc, s, e, lpb), db, now)
    IN  Quiet /\ Effect(res.d, lim.b, lim.s) /\ db' = res.d /\ UNCHANGED <<now, reqs>>

CancelBookingByUser(lim, u, bid) ==
    LET res == Run(CancelBookingByUserReq(u, bid), db, now)
    IN  Quiet /\ Effect(res.d, lim.b, lim.s) /\ db' = res.d /\ UNCHANGED <<now, reqs>>

BookingCheckIn(lim, loc, bid, plate) ==
    LET res == Run(BookingCheckInReq(loc, bid, plate), db, now)
    IN  Quiet /\ Effect(res.d, lim.b, lim.s) /\ db' = res.d /\ UNCHANGED <<now, reqs>>

CancelBookingByEmployee(lim, loc, bid) ==
    LET res == Run(CancelBookingByEmployeeReq(loc, bid), db, now)
    IN  Quiet /\ Effect(res.d, lim.b, lim.s) /\ db' = res.d /\ UNCHANGED <<now, reqs>>

BookingCheckOut(lim, loc, bid) ==
    LET res == Run(BookingCheckOutReq(loc, bid), db, now)
    IN  Quiet /\ Effect(res.d, lim.b, lim.s) /\ db' = res.d /\ UNCHANGED <<now, reqs>>

UpdateParkingLocation(lim, loc, totalSlots) ==
    LET res == Run(UpdateParkingLocationReq(loc, totalSlots), db, now)
    IN  Quiet /\ Effect(res.d, lim.b, lim.s) /\ db' = res.d /\ UNCHANGED <<now, reqs>>

Init ==
    /\ db \in {EmptyDB(n) : n \in 1..MaxSlots}
    /\ now = 0
    /\ reqs = [c \in Clients |-> IdleReq]

(***************************************************************************)
(* Spec: all seven operations, one at a time, on a lot that starts empty;  *)
(* every booking asks for the same window.                                 *)
(***************************************************************************)
RawPlates  == {"", "p1", "P2"}
BookingIds == 1..(MaxBookings + 1)
SessionIds == 0..(MaxSessions + 1)
Lim        == [b |-> MaxBookings, s |-> MaxSessions]

Next ==
    \/ \E loc \in Locations, p \in RawPlates : DriveUpCheckIn(Lim, loc, p)
    \/ \E loc \in Locations, sid \in SessionIds : DriveUpCheckOut(Lim, loc, sid)
    \/ \E loc \in Locations :
          CreateBooking(Lim, "u1", loc, 2 * TickMinutes, 3 * TickMinutes, "")
    \/ \E u \in Users, bid \in BookingIds : CancelBookingByUser(Lim, u, bid)
    \/ \E loc \in Locations, bid \in BookingIds, p \in RawPlates :
          BookingCheckIn(Lim, loc, bid, p)
    \/ \E loc \in Locations, bid \in BookingIds : CancelBookingByEmployee(Lim, loc, bid)
    \/ \E loc \in Locations, bid \in BookingIds : BookingCheckOut(Lim, loc, bid)
    \/ Tick

Spec == Init /\ [][Next]_vars

(***************************************************************************)
(* SpecBook: the booking ledger.  Bookings ask for every window of the     *)
(* time grid, are cancelled, checked in and checked out; no drive-ups.     *)
(***************************************************************************)
TimeGrid  == {k * TickMinutes : k \in 2..4}
LedgerIds == 1..MaxLedger
LimBook   == [b |-> MaxLedger, s |-> MaxLedger]

NextBook ==
    \/ \E loc \in Locations, s, e \in TimeGrid : CreateBooking(LimBook, "u1", loc, s, e, "")
    \/ \E bid \in LedgerIds : CancelBookingByUser(LimBook, "u1", bid)
    \/ \E loc \in Locations, bid \in LedgerIds : BookingCheckIn(LimBook, loc, bid, "p1")
    \/ \E loc \in Locations, bid \in LedgerIds : CancelBookingByEmployee(LimBook, loc, bid)
    \/ \E loc \in Locations, bid \in LedgerIds : BookingCheckOut(LimBook, loc, bid)

SpecBook == Init /\ [][NextBook]_vars

(***************************************************************************)
(* SpecLot: lots of 10, 20, ... slots on which one window is booked again  *)
(* and again until the booking route refuses it.                           *)
(***************************************************************************)
LotSizes == {10 * k : k \in 1..MaxLotTens}
LimLot   == [b |-> 10 * MaxLotTens, s |-> 0]

InitLot ==
    /\ db \in {EmptyDB(n) : n \in LotSizes}
    /\ now = 0
    /\ reqs = [c \in Clients |-> IdleReq]

NextLot ==
    \E loc \in Locations :
        CreateBooking(LimLot, "u1", loc, 2 * TickMinutes, 3 * TickMinutes, "")

SpecLot == InitLot /\ [][NextLot]_vars

(***************************************************************************)
(* SpecAdmin: drive-up traffic on a lot whose capacity the administrator   *)
(* edits.                                                                  *)
(***************************************************************************)
NextAdmin ==
    \/ \E loc \in Locations, p \in RawPlates : DriveUpCheckIn(Lim, loc, p)
    \/ \E loc \in Locations, sid \in SessionIds : DriveUpCheckOut(Lim, loc, sid)
    \/ \E loc \in Locations, n \in 0..MaxSlots : UpdateParkingLocation(Lim, loc, n)
    \/ Tick

SpecAdmin == Init /\ [][NextAdmin]_vars

(***************************************************************************)
(* SpecCost: one vehicle after another drives up, stays some whole number  *)
(* of minutes and checks out; the clock moves a minute at a time so that   *)
(* every stay up to MaxStayMinutes is billed.                              *)
(***************************************************************************)
LimCost == [b |-> 0, s |-> 1]

Minute ==
    /\ now < MaxStayMinutes
    /\ now' = now + 1
    /\ UNCHANGED <<db, reqs>>

NextCost ==
    \/ \E loc \in Locations, p \in RawPlates : DriveUpCheckIn(LimCost, loc, p)
    \/ \E loc \in Locations, sid \in SessionIds : DriveUpCheckOut(LimCost, loc, sid)
    \/ Minute

SpecCost == Init /\ [][NextCost]_vars

(***************************************************************************)
(* SpecSites: two locations, each with its own employee; every employee    *)
(* route is called with the location of the employee who calls it.         *)
(***************************************************************************)
Sites == {1, 2}

SitesDB(total) ==
    [locs     |-> [l \in Sites |-> [total_slots |-> total, available_slots |-> total]],
     bookings |-> <<>>, sessions |-> <<>>, rate |-> SetupHourlyRate]

InitSites ==
    /\ db \in {SitesDB(n) : n \in 1..MaxSlots}
    /\ now = 0
    /\ reqs = [c \in Clients |-> IdleReq]

NextSites ==
    \/ \E loc \in Sites : DriveUpCheckIn(Lim, loc, "p1")
    \/ \E loc \in Sites, sid \in SessionIds : DriveUpCheckOut(Lim, loc, sid)
    \/ \E loc \in Sites :
          CreateBooking(Lim, "u1", loc, 2 * TickMinutes, 3 * TickMinutes, "")
    \/ \E bid \in BookingIds : CancelBookingByUser(Lim, "u1", bid)
    \/ \E loc \in Sites, bid \in BookingIds : BookingCheckIn(Lim, loc, bid, "P2")
    \/ \E loc \in Sites, bid \in BookingIds : CancelBookingByEmployee(Lim, loc, bid)
    \/ \E loc \in Sites, bid \in BookingIds : BookingCheckOut(Lim, loc, bid)

SpecSites == InitSites /\ [][NextSites]_vars

(***************************************************************************)
(* SpecMissed: bookings of the window that starts now and ends one tick    *)
(* later, so that the clock runs past the end of a booking nobody checked  *)
(* in.  The user's own cancel is left out: such a booking starts less than *)
(* an hour from now and the route refuses it every time.                   *)
(***************************************************************************)
NextMissed ==
    \/ \E loc \in Locations : DriveUpCheckIn(Lim, loc, "p1")
    \/ \E loc \in Locations, sid \in SessionIds : DriveUpCheckOut(Lim, loc, sid)
    \/ \E loc \in Locations : CreateBooking(Lim, "u1", loc, 0, TickMinutes, "")
    \/ \E loc \in Locations, bid \in BookingIds : BookingCheckIn(Lim, loc, bid, "P2")
    \/ \E loc \in Locations, bid \in BookingIds : CancelBookingByEmployee(Lim, loc, bid)
    \/ \E loc \in Locations, bid \in BookingIds : BookingCheckOut(Lim, loc, bid)
    \/ Tick

SpecMissed == Init /\ [][NextMissed]_vars

(***************************************************************************)
(* SpecStmt: two clients, one request each, served concurrently.  Every    *)
(* database statement is awaited and commits on its own, so the handlers   *)
(* interleave statement by statement, and a statement may fail: the        *)
(* handler's catch block then answers 500 and undoes nothing.  The         *)
(* database starts in a state the handlers themselves produce.             *)
(***************************************************************************)
SeedWindow == <<2 * TickMinutes, 3 * TickMinutes>>

SeedBooked(total) ==
    Run(CreateBookingReq("u1", 1, SeedWindow[1], SeedWindow[2], ""), EmptyDB(total), 0).d

SeedParked(total) == Run(BookingCheckInReq(1, 1, "p1"), SeedBooked(total), 0).d

Seeds ==
    UNION {{EmptyDB(n), SeedBooked(n), SeedParked(n)} : n \in 1..MaxSlots}

StmtRequests ==
    {DriveUpCheckInReq(1, "p2"), DriveUpCheckOutReq(1, 1),
     CreateBookingReq("u1", 1, SeedWindow[1], SeedWindow[2], ""),
     CancelBookingByUserReq("u1", 1), BookingCheckInReq(1, 1, "p1"),
     CancelBookingByEmployeeReq(1, 1), BookingCheckOutReq(1, 1)}

\* positions at which the handler has no database statement to await
NoStatementPcs == {"idle", "done", "ci_validate", "co_validate", "cb_validate", "bi_validate"}

BeginRequest(c, r) ==
    /\ reqs[c].pc = "idle"
    /\ reqs' = [reqs EXCEPT ![c] = r]
    /\ UNCHANGED <<db, now>>

StepRequest(c) ==
    LET res == Step(reqs[c], db, now)
    IN  /\ reqs[c].pc \notin {"idle", "done"}
        /\ reqs' = [reqs EXCEPT ![c] = res.r]
        /\ db' = res.d
        /\ UNCHANGED now

ThrowRequest(c) ==
    /\ reqs[c].pc \notin NoStatementPcs
    /\ reqs' = [reqs EXCEPT ![c] = Answer(reqs[c], db, 500).r]
    /\ UNCHANGED <<db, now>>

InitStmt ==
    /\ db \in Seeds
    /\ now = 0
    /\ reqs = [c \in Clients |-> IdleReq]

NextStmt ==
    \/ \E c \in Clients, r \in StmtRequests : BeginRequest(c, r)
    \/ \E c \in Clients : StepRequest(c)
    \/ \E c \in Clients : ThrowRequest(c)

SpecStmt == InitStmt /\ [][NextStmt]_vars

(***************************************************************************)
(* SpecDrain: the check-ins have stopped and the employees check the       *)
(* parked vehicles out, statement by statement, every open session         *)
(* getting its turn.  The lot                                              *)
(* starts in a state the check-in routes leave behind: after some          *)
(* check-ins and bookings run one after another, or after a drive-up       *)
(* check-in that a check-out of the new session overtook between its       *)
(* INSERT and its decrement.                                               *)
(***************************************************************************)
RECURSIVE RunUntil(_, _, _, _)
RunUntil(r, d, t, pc) ==
    IF r.pc \in {"done", "idle", pc} THEN [r |-> r, d |-> d]
    ELSE LET s == Step(r, d, t) IN RunUntil(s.r, s.d, t, pc)

ParkOps(d) ==
    {Run(q, d, 0).d : q \in {DriveUpCheckInReq(1, "p1"), DriveUpCheckInReq(1, "P2"),
                             CreateBookingReq("u1", 1, 2 * TickMinutes, 3 * TickMinutes, ""),
                             BookingCheckInReq(1, 1, "p1")}}

RECURSIVE ParkedWithin(_, _)
ParkedWithin(S, k) ==
    IF k = 0 THEN S ELSE ParkedWithin(S \cup UNION {ParkOps(d) : d \in S}, k - 1)

RacedCheckIn(d) ==
    LET in  == RunUntil(DriveUpCheckInReq(1, "p2"), d, 0, "ci_dec")
        out == Run(DriveUpCheckOutReq(1, in.r.sid), in.d, 0)
    IN  Run(in.r, out.d, 0).d

DrainSeeds ==
    LET parked == ParkedWithin({EmptyDB(n) : n \in 1..MaxSlots}, MaxSessions + MaxBookings)
    IN  parked \cup {RacedCheckIn(d) : d \in parked}

InitDrain ==
    /\ db \in DrainSeeds
    /\ now = 0
    /\ reqs = [c \in Clients |-> IdleReq]

\* an employee sends POST /checkout for a vehicle that is parked
BeginCheckOut(c, sid) ==
    /\ sid \in DOMAIN db.sessions
    /\ db.sessions[sid].exit_time = Null
    /\ BeginRequest(c, DriveUpCheckOutReq(db.sessions[sid].parking_location_id, sid))

\* the client has read the answer and may send its next request
Acknowledge(c) ==
    /\ reqs[c].pc = "done"
    /\ reqs' = [reqs EXCEPT ![c] = IdleReq]
    /\ UNCHANGED <<db, now>>

NextDrain ==
    \/ \E c \in Clients, sid \in SessionIds : BeginCheckOut(c, sid)
    \/ \E c \in Clients : StepRequest(c)
    \/ \E c \in Clients : Acknowledge(c)

\* every request is served to its answer, and no parked vehicle waits forever
\* for its check-out to be asked
SpecDrain ==
    /\ InitDrain
    /\ [][NextDrain]_vars
    /\ \A c \in Clients : WF_vars(StepRequest(c)) /\ WF_vars(Acknowledge(c))
    /\ \A sid \in SessionIds : SF_vars(\E c \in Clients : BeginCheckOut(c, sid))

(***************************************************************************)
(* Properties.                                                             *)
(***************************************************************************)
OpenSessions == {i \in DOMAIN sessions : sessions[i].exit_time = Null}
SessionsOfBooking(b) == {i \in DOMAIN sessions : sessions[i].booking_id = b}
Outcomes(t) == {t, t + TickMinutes}   \* when a follow-up call may run: at once or a tick later

\* C1: after any sequence of the seven operations on a location that started with
\* available_slots = total_slots, every location has 0 <= available_slots <= total_slots.
C1_SlotsWithinCapacity ==
    \A l \in DOMAIN locs :
        0 <= locs[l].available_slots /\ locs[l].available_slots <= locs[l].total_slots

\* the lot is full again after some vehicle has left: slots were taken, given
\* back and taken once more
C1_Witness ==
    \E l \in DOMAIN locs :
        /\ locs[l].available_slots = 0
        /\ \E i \in DOMAIN sessions : sessions[i].exit_time # Null
        /\ OpenSessions # {}

\* C2: no two open vehicle sessions share the same (license_plate, location_id),
\* whatever mix of drive-up and booking check-ins created them.
C2_OneOpenSessionPerPlate ==
    \A i, j \in OpenSessions :
        (/\ sessions[i].license_plate = sessions[j].license_plate
         /\ sessions[i].parking_location_id = sessions[j].parking_location_id) => i = j

\* number of confirmed / checked-in bookings of loc whose window [start, end) contains t
PointCount(d, loc, t) ==
    Cardinality({i \in DOMAIN d.bookings :
        /\ d.bookings[i].parking_location_id = loc
        /\ ActiveStatus(d.bookings[i].status)
        /\ d.bookings[i].start_time <= t
        /\ t < d.bookings[i].end_time})

\* every window starts on the grid, so the count can only rise at a grid instant
Instants == TimeGrid

\* floor(total_slots * 0.70) as the booking policy states it
FloorOfThreshold(total) == (total * 70) \div 100

WithinBookingCapacity(d) ==
    \A l \in DOMAIN d.locs : \A t \in Instants :
        PointCount(d, l, t) <= FloorOfThreshold(d.locs[l].total_slots)

\* a step that adds a booking row leaves every instant within the booking capacity
C3_BookingCapStep == Len(bookings') > Len(bookings) => WithinBookingCapacity(db')

\* C3: immediately after any committed createBooking, for every location and
\* every instant t, the number of confirmed or checked-in bookings whose
\* window [start_time, end_time) contains t is at most floor(total_slots * 0.70).
C3_OverlapWithinCapacity == [][C3_BookingCapStep]_vars

LegalStatusEdges ==
    {<<"confirmed", "checked-in">>, <<"confirmed", "cancelled">>,
     <<"checked-in", "completed">>, <<"checked-in", "cancelled">>}

C4_StatusStep ==
    /\ DOMAIN bookings \subseteq DOMAIN bookings'
    /\ \A b \in DOMAIN bookings :
          \/ bookings'[b].status = bookings[b].status
          \/ <<bookings[b].status, bookings'[b].status>> \in LegalStatusEdges

\* C4: a booking's status moves only along confirmed -> checked-in, confirmed ->
\* cancelled, checked-in -> completed, checked-in -> cancelled; completed and
\* cancelled are never left, and no booking row disappears.
C4_StatusMachine == [][C4_StatusStep]_vars

\* every client has either sent nothing or received its answer
Settled == \A c \in Clients : reqs[c].pc \in {"idle", "done"}

\* a booking is checked-in exactly when exactly one open session carries its id
C5_CheckedInIffOpenSession ==
    \A b \in DOMAIN bookings :
        (bookings[b].status = "checked-in")
            <=> (Cardinality(SessionsOfBooking(b) \cap OpenSessions) = 1)

\* C5: in every reachable state a booking has status checked-in if and only if
\* exactly one open vehicle session with its booking_id exists: checked-in is set
\* in the step that creates the session, completed in the step that closes it.
\* Stated of the states in which no request is under way.
C5_BookingSessionPairing == Settled => C5_CheckedInIffOpenSession

\* C6: bookingCheckIn is all-or-nothing: when it fails at a statement after the
\* vehicle session was inserted, no session of that booking is left behind, the
\* booking is still confirmed and available_slots is untouched; so once the
\* requests are answered no open session is linked to a booking still confirmed.
C6_CheckInAllOrNothing ==
    Settled =>
        \A i \in OpenSessions :
            sessions[i].booking_id # 0 =>
                bookings[sessions[i].booking_id].status # "confirmed"

\* client c was answered 200 by an operation that closes session i
ClosedBy(c, i) ==
    /\ reqs[c].pc = "done" /\ reqs[c].code = 200
    /\ sessions[i].exit_time # Null
    /\ \/ reqs[c].op = "driveUpCheckOut" /\ reqs[c].sid = i
       \/ /\ reqs[c].op \in {"bookingCheckOut", "cancelBookingByEmployee"}
          /\ reqs[c].bid = sessions[i].booking_id

\* C7: a booking-derived vehicle session is closed exactly once: among the
\* driveUpCheckOut, bookingCheckOut and cancelBookingByEmployee requests that
\* target it, in any order or interleaving, at most one succeeds in closing it.
C7_SessionClosedOnce ==
    \A i \in DOMAIN sessions :
        sessions[i].booking_id # 0 =>
            Cardinality({c \in Clients : ClosedBy(c, i)}) <= 1

\* C8: driveUpCheckOut of an open session answers 200; the same call repeated, at
\* once or later, answers 400 (already checked out) and leaves the database as the
\* first call left it.
C8_SecondCheckoutRejected ==
    \A sid \in OpenSessions :
        LET req   == DriveUpCheckOutReq(sessions[sid].parking_location_id, sid)
            first == Run(req, db, now)
        IN  /\ first.r.code = 200
            /\ first.d.sessions[sid].exit_time = now
            /\ \A t2 \in Outcomes(now) :
                  LET second == Run(req, first.d, t2)
                  IN  second.r.code = 400 /\ second.d = first.d

\* a session is parked for a while and another one has been checked out already
C8_Witness ==
    /\ \E sid \in OpenSessions : sessions[sid].entry_time < now
    /\ \E sid \in DOMAIN sessions : sessions[sid].exit_time # Null /\ sessions[sid].booking_id = 0

\* C9: whenever bookingCheckIn of a booking succeeds, a bookingCheckOut of that
\* booking executed next succeeds and leaves available_slots as it was before
\* the check-in.
C9_CheckInOutRoundTrip ==
    \A b \in DOMAIN bookings, l \in DOMAIN locs, p \in RawPlates :
        LET in == Run(BookingCheckInReq(l, b, p), db, now)
        IN  in.r.code = 200 =>
                \A t2 \in Outcomes(now) :
                    LET out == Run(BookingCheckOutReq(l, b), in.d, t2)
                    IN  /\ out.r.code = 200
                        /\ out.d.locs[l].available_slots = locs[l].available_slots

\* a confirmed booking can be checked in while another vehicle holds a slot
C9_Witness ==
    \E b \in DOMAIN bookings, l \in DOMAIN locs :
        /\ Run(BookingCheckInReq(l, b, "p1"), db, now).r.code = 200
        /\ 0 < locs[l].available_slots
        /\ locs[l].available_slots < locs[l].total_slots

\* C10: two concurrent createBooking requests for overlapping windows at one
\* location are serialized: under any interleaving the number of confirmed or
\* checked-in bookings containing an instant never exceeds bookingCapacity.
C10_ConcurrentCreatesWithinCapacity ==
    (\A c \in Clients : reqs[c].op \in {"none", "createBooking"}) =>
        WithinBookingCapacity(db)

\* C11: under any interleaving of the database statements of concurrent
\* check-ins and check-outs (drive-up or booking) at one location,
\* available_slots is never below zero and never above total_slots.
C11_SlotsBoundedUnderInterleaving ==
    \A l \in DOMAIN locs : locs[l].available_slots \in 0..locs[l].total_slots

\* two check-ins raced past the available_slots test: both were admitted, more
\* vehicles are parked than the location has slots, and available_slots stopped at 0
C11_Witness ==
    /\ \A c \in Clients :
          /\ reqs[c].pc = "done"
          /\ reqs[c].op \in {"driveUpCheckIn", "bookingCheckIn"}
          /\ reqs[c].code \in {200, 201}
    /\ \E l \in DOMAIN locs :
          /\ locs[l].available_slots = 0
          /\ Cardinality(OpenSessions) > locs[l].total_slots

\* C12: createBooking with a valid window is admitted exactly when the number of
\* confirmed or checked-in bookings of the location with start < newEnd and
\* end > newStart is strictly less than floor(total_slots * 0.70); a window that
\* only touches an existing one is not counted; an admission adds the one
\* confirmed booking and a rejection inserts nothing.
C12_AdmittedIffBelowCapacity ==
    \A loc \in DOMAIN locs : \A s, e \in TimeGrid :
        (s < e /\ s >= now) =>
            LET res      == Run(CreateBookingReq("u1", loc, s, e, ""), db, now)
                counted  == {i \in DOMAIN bookings :
                                /\ bookings[i].parking_location_id = loc
                                /\ bookings[i].status \in {"confirmed", "checked-in"}
                                /\ bookings[i].start_time < e
                                /\ bookings[i].end_time > s}
                touching == {i \in DOMAIN bookings :
                                bookings[i].end_time = s \/ bookings[i].start_time = e}
                admitted == res.r.code = 201
            IN  /\ admitted <=>
                     Cardinality(counted) < FloorOfThreshold(locs[loc].total_slots)
                /\ counted \cap touching = {}
                /\ admitted =>
                     /\ Len(res.d.bookings) = Len(bookings) + 1
                     /\ SubSeq(res.d.bookings, 1, Len(bookings)) = bookings
                     /\ res.d.bookings[Len(bookings) + 1].status = "confirmed"
                     /\ res.d.bookings[Len(bookings) + 1].start_time = s
                     /\ res.d.bookings[Len(bookings) + 1].end_time = e
                /\ ~admitted => res.d = db

\* the handler run on the present database left parking_locations and the
\* vehicle session log as they are
SlotsAndSessionsKept(res) == res.d.locs = locs /\ res.d.sessions = sessions

\* C13: createBooking, and cancelBookingByUser and cancelBookingByEmployee applied
\* to a confirmed booking, leave every location's available_slots and the whole
\* vehicle session log unchanged, whether the request is admitted or rejected.
C13_BookingOpsKeepSlotsAndSessions ==
    /\ \A loc \in Locations, s, e \in {0, 2 * TickMinutes, 3 * TickMinutes} :
          SlotsAndSessionsKept(Run(CreateBookingReq("u1", loc, s, e, ""), db, now))
    /\ \A b \in DOMAIN bookings :
          bookings[b].status = "confirmed" =>
              /\ \A u \in Users :
                    SlotsAndSessionsKept(Run(CancelBookingByUserReq(u, b), db, now))
              /\ \A loc \in {0} \cup Locations :
                    SlotsAndSessionsKept(Run(CancelBookingByEmployeeReq(loc, b), db, now))

\* a vehicle is parked, so slots and sessions are there to be disturbed, while a
\* confirmed booking can be cancelled by its owner and by the employee, is refused
\* to another user, and a further booking of its window is refused
C13_Witness ==
    /\ OpenSessions # {}
    /\ \E l \in DOMAIN locs : locs[l].available_slots < locs[l].total_slots
    /\ \E b \in DOMAIN bookings :
          /\ bookings[b].status = "confirmed"
          /\ Run(CancelBookingByUserReq("u1", b), db, now).r.code = 200
          /\ Run(CancelBookingByUserReq("u2", b), db, now).r.code # 200
          /\ Run(CancelBookingByEmployeeReq(1, b), db, now).r.code = 200
          /\ Run(CreateBookingReq("u1", 1, bookings[b].start_time,
                                  bookings[b].end_time, ""), db, now).r.code = 400
    /\ Run(CreateBookingReq("u1", 1, 0, 2 * TickMinutes, ""), db, now).r.code = 201

\* a vehicle session of location l is opened or closed in this step
SessionOpenedOrClosed(l) ==
    \/ \E i \in DOMAIN sessions' \ DOMAIN sessions :
          sessions'[i].parking_location_id = l
    \/ \E i \in DOMAIN sessions :
          /\ sessions[i].parking_location_id = l
          /\ sessions[i].exit_time = Null
          /\ sessions'[i].exit_time # Null

C14_SlotsStep ==
    \A l \in DOMAIN locs :
        /\ locs'[l].total_slots = locs[l].total_slots
        /\ locs'[l].available_slots # locs[l].available_slots => SessionOpenedOrClosed(l)

\* C14: a location's total_slots is fixed, and its available_slots changes only
\* in a step in which a vehicle session of that location is opened or closed; no
\* other operation, the administrator's location update included, changes it.
C14_SlotsChangeOnlyWithSessions == [][C14_SlotsStep]_vars

\* C15: driveUpCheckIn is rejected with no state change when available_slots <= 0
\* or when an open session of the same plate exists at the location; otherwise
\* it creates exactly one new open session with no booking and decreases
\* available_slots by exactly 1.
C15_DriveUpCheckInContract ==
    \A loc \in DOMAIN locs : \A p \in RawPlates \ {""} :
        LET res     == Run(DriveUpCheckInReq(loc, p), db, now)
            parked  == \E i \in OpenSessions :
                           /\ sessions[i].license_plate = CleanPlate(p)
                           /\ sessions[i].parking_location_id = loc
            n       == Len(sessions)
        IN  IF locs[loc].available_slots <= 0 \/ parked
            THEN res.r.code # 201 /\ res.d = db
            ELSE /\ res.r.code = 201
                 /\ Len(res.d.sessions) = n + 1
                 /\ SubSeq(res.d.sessions, 1, n) = sessions
                 /\ res.d.sessions[n + 1].license_plate = CleanPlate(p)
                 /\ res.d.sessions[n + 1].parking_location_id = loc
                 /\ res.d.sessions[n + 1].exit_time = Null
                 /\ res.d.sessions[n + 1].booking_id = 0
                 /\ res.d.locs[loc].available_slots = locs[loc].available_slots - 1
                 /\ res.d.locs[loc].total_slots = locs[loc].total_slots
                 /\ res.d.bookings = bookings

\* one vehicle is parked and one slot is left: checking the parked plate in again
\* is refused, another plate is admitted
C15_Witness ==
    /\ locs[1].available_slots = 1
    /\ Run(DriveUpCheckInReq(1, "p1"), db, now).r.code = 400
    /\ Run(DriveUpCheckInReq(1, "P2"), db, now).r.code = 201

\* C16: when an employee cancels a checked-in booking that has a linked open
\* session, the booking becomes cancelled, that session is closed with cost 0 and
\* available_slots becomes min(total_slots, available_slots + 1).
C16_EmployeeCancelOfCheckedIn ==
    \A b \in DOMAIN bookings :
        LET loc    == bookings[b].parking_location_id
            linked == SessionsOfBooking(b) \cap OpenSessions
            res    == Run(CancelBookingByEmployeeReq(loc, b), db, now)
        IN  (bookings[b].status = "checked-in" /\ linked # {}) =>
                /\ res.r.code = 200
                /\ res.d.bookings[b].status = "cancelled"
                /\ \A o \in DOMAIN bookings : o # b => res.d.bookings[o] = bookings[o]
                /\ Len(res.d.sessions) = Len(sessions)
                /\ \A i \in DOMAIN sessions :
                      IF i \in linked
                      THEN /\ res.d.sessions[i].exit_time = now
                           /\ res.d.sessions[i].cost = 0
                           /\ res.d.sessions[i].entry_time = sessions[i].entry_time
                      ELSE res.d.sessions[i] = sessions[i]
                /\ res.d.locs[loc].available_slots =
                       Min(locs[loc].total_slots, locs[loc].available_slots + 1)
                /\ res.d.locs[loc].total_slots = locs[loc].total_slots

\* a booked vehicle is parked and the clock has moved since it entered
C16_Witness ==
    \E b \in DOMAIN bookings :
        /\ bookings[b].status = "checked-in"
        /\ \E i \in SessionsOfBooking(b) \cap OpenSessions : sessions[i].entry_time < now
        /\ Run(CancelBookingByEmployeeReq(1, b), db, now).d.locs[1].available_slots
               = locs[1].available_slots + 1

\* C17: cancelBookingByUser succeeds only when the caller owns the booking, its
\* status is confirmed and its start_time is strictly more than 1 hour after the
\* current time; in every other case, start_time exactly 1 hour away included,
\* it is rejected and the booking (the whole database) is unchanged.
C17_UserCancelOnlyBeforeGracePeriod ==
    \A b \in DOMAIN bookings : \A u \in Users :
        LET res     == Run(CancelBookingByUserReq(u, b), db, now)
            allowed == /\ bookings[b].user_id = u
                       /\ bookings[b].status = "confirmed"
                       /\ bookings[b].start_time > now + 60
        IN  IF allowed
            THEN res.r.code = 200 => res.d.bookings[b].status = "cancelled"
            ELSE res.r.code # 200 /\ res.d = db

\* C18: checkAvailability is read-only and agrees with the commit-time check: for
\* every state, location and window with end > start and start not before now,
\* isBookable is true exactly when a createBooking of the same window in the
\* same state would be admitted, the reported count is the number of overlapping
\* confirmed or checked-in bookings, and slotsAvailableForBooking =
\* max(0, bookingCapacity - overlapCount).
C18_PreviewAgreesWithCommit ==
    \A loc \in DOMAIN locs : \A s, e \in {0} \cup TimeGrid :
        (e > s /\ s >= now) =>
            LET preview == Run(BookingAvailabilityReq(loc, s, e), db, now)
                commit  == Run(CreateBookingReq("u1", loc, s, e, ""), db, now)
                body    == preview.r.body
            IN  /\ preview.d = db
                /\ preview.r.code = 200
                /\ body.isBookable <=> commit.r.code = 201
                /\ body.currentBookedCountInSlot = OverlapCount(db, loc, s, e)
                /\ body.slotsAvailableForBooking =
                       Max(0, body.bookingCapacityForLocation - body.currentBookedCountInSlot)

\* one window is reported as full while a window touching it is reported bookable
C18_Witness ==
    \E s, e, e2 \in TimeGrid :
        /\ s < e /\ e < e2
        /\ ~Run(BookingAvailabilityReq(1, s, e), db, now).r.body.isBookable
        /\ Run(BookingAvailabilityReq(1, s, e), db, now).r.body.currentBookedCountInSlot >= 1
        /\ Run(BookingAvailabilityReq(1, e, e2), db, now).r.body.isBookable

\* C19: the cost stored by a checkout is 0 when exit <= entry or the hourly
\* rate is <= 0, and otherwise is max(15 minutes, exit - entry) times the
\* hourly rate, rounded up to the next subunit (so 1..15 minutes cost what 15
\* minutes cost, and the cost is never below duration times rate).
C19_CostIsExactCeiling ==
    \A i \in DOMAIN db.sessions :
        LET s       == db.sessions[i]
            minutes == s.exit_time - s.entry_time
        IN  s.exit_time # Null =>
                s.cost = IF minutes <= 0 \/ db.rate <= 0
                         THEN 0
                         ELSE CeilDiv(Max(MinBillMinutes, minutes) * db.rate, HourMinutes)

\* C20: bookingCheckIn of a confirmed booking is rejected whenever the
\* location's available_slots <= 0, and the rejection leaves the booking
\* confirmed, creates no session and leaves available_slots unchanged.
C20_BookingCheckInNeedsPhysicalSlot ==
    \A loc \in DOMAIN locs : \A bid \in DOMAIN bookings : \A p \in RawPlates \ {""} :
        LET res == Run(BookingCheckInReq(loc, bid, p), db, now)
        IN  (/\ bookings[bid].status = "confirmed"
             /\ bookings[bid].parking_location_id = loc
             /\ locs[loc].available_slots <= 0)
            => /\ res.r.code = 400
               /\ res.d.bookings[bid].status = "confirmed"
               /\ res.d.sessions = sessions
               /\ res.d.locs[loc].available_slots = locs[loc].available_slots
               /\ res.d = db

\* drive-ups hold every slot of the lot while a booking is still confirmed, and
\* the employee's check-in of that booking is refused
C20_Witness ==
    \E bid \in DOMAIN bookings :
        /\ bookings[bid].status = "confirmed"
        /\ locs[1].available_slots = 0
        /\ Cardinality(OpenSessions) = locs[1].total_slots
        /\ \A i \in OpenSessions : sessions[i].booking_id = 0
        /\ Run(BookingCheckInReq(1, bid, "p1"), db, now).r.code = 400

\* C21: createBooking is rejected without inserting a booking whenever
\* end <= start (end = start included) or start is before the current time, so
\* every booking in the ledger has end_time > start_time.
C21_BookingWindowNonEmpty ==
    /\ \A b \in DOMAIN bookings : bookings[b].end_time > bookings[b].start_time
    /\ \A loc \in DOMAIN locs : \A s, e \in TimeGrid \cup {now - TickMinutes} :
          LET res == Run(CreateBookingReq("u1", loc, s, e, ""), db, now)
          IN  (e <= s \/ s < now) => res.r.code # 201 /\ res.d = db

\* C22: with no request in flight, closing the open session of a booking by
\* driveUpCheckOut (session id) yields the same state as closing it by
\* bookingCheckOut (booking id) at the same time and rate: the session closed
\* with one exit_time and cost, the booking completed with actual_exit_time and
\* final_cost equal to the session's, available_slots one higher (clamped).
C22_CheckOutRoutesAgree ==
    Settled =>
    \A i \in OpenSessions :
        LET b    == sessions[i].booking_id
            loc  == sessions[i].parking_location_id
            bySession == Run(DriveUpCheckOutReq(loc, i), db, now)
            byBooking == Run(BookingCheckOutReq(loc, b), db, now)
        IN  b # 0 =>
              /\ bySession.d = byBooking.d
              /\ bySession.r.code = 200 /\ byBooking.r.code = 200
              /\ bySession.d.sessions[i].exit_time = now
              /\ bySession.d.sessions[i].cost = CostOf(sessions[i].entry_time, now, db.rate)
              /\ bySession.d.bookings[b].status = "completed"
              /\ bySession.d.bookings[b].actual_exit_time = bySession.d.sessions[i].exit_time
              /\ bySession.d.bookings[b].final_cost = bySession.d.sessions[i].cost
              /\ bySession.d.locs[loc].available_slots =
                     Min(locs[loc].total_slots, locs[loc].available_slots + 1)

\* C23: bookingCheckOut of a booking that is checked-in but has no open session
\* at the location is rejected as a data inconsistency and changes nothing: the
\* booking stays checked-in, no session is modified and available_slots is not
\* incremented.
C23_CheckOutWithoutSessionRejected ==
    \A b \in DOMAIN bookings :
        LET loc == bookings[b].parking_location_id
            res == Run(BookingCheckOutReq(loc, b), db, now)
        IN  (/\ bookings[b].status = "checked-in"
             /\ OpenSessionsOfBooking(db, b, loc) = {})
            => /\ res.r.code = 500
               /\ res.d.bookings[b].status = "checked-in"
               /\ res.d.sessions = sessions
               /\ res.d.locs = locs
               /\ res.d = db

\* no request is in flight, booking 1 is checked-in and its only session has
\* been closed; the check-out by booking id is refused
C23_Witness ==
    /\ Settled
    /\ 1 \in DOMAIN bookings
    /\ bookings[1].status = "checked-in"
    /\ SessionsOfBooking(1) # {}
    /\ \A i \in SessionsOfBooking(1) : sessions[i].exit_time # Null
    /\ Run(BookingCheckOutReq(1, 1), db, now).r.code = 500

\* C24: cancelBookingByEmployee of a booking that is checked-in but has no open
\* session still succeeds and sets the booking to cancelled, leaving
\* available_slots and every session unchanged (the slot increment is skipped).
C24_CancelWithoutSessionSkipsIncrement ==
    \A b \in DOMAIN bookings :
        LET loc == bookings[b].parking_location_id
            res == Run(CancelBookingByEmployeeReq(loc, b), db, now)
        IN  (/\ bookings[b].status = "checked-in"
             /\ \A i \in SessionsOfBooking(b) : sessions[i].exit_time # Null)
            => /\ res.r.code = 200
               /\ res.d.bookings = [bookings EXCEPT ![b].status = "cancelled"]
               /\ res.d.sessions = sessions
               /\ res.d.locs = locs

\* no request is in flight, booking 1 is checked-in, its session is closed and
\* a slot is taken; the employee's cancel is accepted
C24_Witness ==
    /\ Settled
    /\ 1 \in DOMAIN bookings
    /\ bookings[1].status = "checked-in"
    /\ SessionsOfBooking(1) # {}
    /\ \A i \in SessionsOfBooking(1) : sessions[i].exit_time # Null
    /\ locs[1].available_slots < locs[1].total_slots
    /\ Run(CancelBookingByEmployeeReq(1, 1), db, now).r.code = 200

\* C25: an employee of location A cannot change state of another location B:
\* driveUpCheckOut of a session at B, and bookingCheckIn, bookingCheckOut and
\* cancelBookingByEmployee of a booking at B, are all rejected and leave the
\* available_slots, sessions and bookings of both locations unchanged.
C25_EmployeeConfinedToOwnLocation ==
    \A A \in DOMAIN locs : \A B \in DOMAIN locs \ {A} :
        /\ \A i \in DOMAIN sessions :
              LET res == Run(DriveUpCheckOutReq(A, i), db, now)
              IN  sessions[i].parking_location_id = B
                  => res.r.code \in {400, 403, 404} /\ res.d = db
        /\ \A b \in DOMAIN bookings :
              LET checkIn  == Run(BookingCheckInReq(A, b, "p1"), db, now)
                  checkOut == Run(BookingCheckOutReq(A, b), db, now)
                  cancel   == Run(CancelBookingByEmployeeReq(A, b), db, now)
              IN  bookings[b].parking_location_id = B
                  => /\ checkIn.r.code \in {400, 403, 404}  /\ checkIn.d = db
                     /\ checkOut.r.code \in {400, 403, 404} /\ checkOut.d = db
                     /\ cancel.r.code \in {400, 403, 404}   /\ cancel.d = db

\* location 2 holds a drive-up and a checked-in booking with its open session,
\* location 1 has free slots; the employee of location 1 is turned away
C25_Witness ==
    /\ \E i \in OpenSessions :
          /\ sessions[i].parking_location_id = 2
          /\ sessions[i].booking_id = 0
          /\ Run(DriveUpCheckOutReq(1, i), db, now).r.code = 404
    /\ \E b \in DOMAIN bookings :
          /\ bookings[b].parking_location_id = 2
          /\ bookings[b].status = "checked-in"
          /\ OpenSessionsOfBooking(db, b, 2) # {}
          /\ Run(CancelBookingByEmployeeReq(1, b), db, now).r.code = 403
    /\ locs[1].available_slots > 0

\* a confirmed booking whose window has fully elapsed
Missed(b) == bookings[b].status = "confirmed" /\ bookings[b].end_time <= now

C26_MissedStep ==
    /\ now' # now => db' = db
    /\ \A b \in DOMAIN bookings :
          Missed(b) =>
              /\ b \in DOMAIN db'.bookings
              /\ \/ db'.bookings[b] = bookings[b]
                 \/ \E loc \in DOMAIN locs, p \in RawPlates :
                        db' = Run(BookingCheckInReq(loc, b, p), db, now).d
                 \/ \E loc \in DOMAIN locs :
                        db' = Run(CancelBookingByEmployeeReq(loc, b), db, now).d
                 \/ \E u \in Users : db' = Run(CancelBookingByUserReq(u, b), db, now).d

\* C26: the passage of time alone never changes a booking: a confirmed booking
\* whose window has fully elapsed without check-in stays confirmed in every
\* later state until a bookingCheckIn or a cancellation is applied to it.
C26_MissedBookingStaysConfirmed == [][C26_MissedStep]_vars

\* the window of a confirmed booking has ended and a vehicle has driven up
\* since: the booking is still confirmed
C26_Witness ==
    \E b \in DOMAIN bookings :
        /\ Missed(b)
        /\ \E i \in DOMAIN sessions : sessions[i].entry_time >= bookings[b].end_time

\* C27: conservation of physical slots.  From a location created with
\* available_slots = total_slots and no sessions, after any sequence of
\* check-ins, check-outs and cancellations each run to completion,
\* available_slots + (number of open sessions at the location) = total_slots.
C27_SlotsConserved ==
    \A l \in DOMAIN locs :
        locs[l].available_slots
            + Cardinality({i \in OpenSessions : sessions[i].parking_location_id = l})
        = locs[l].total_slots

\* a vehicle is parked and a booking that was checked in has been cancelled by
\* the employee, which closed its session and gave the slot back
C27_Witness ==
    /\ OpenSessions # {}
    /\ locs[1].available_slots = locs[1].total_slots - Cardinality(OpenSessions)
    /\ \E b \in DOMAIN bookings :
          /\ bookings[b].status = "cancelled"
          /\ \E i \in SessionsOfBooking(b) : sessions[i].exit_time # Null

\* C28: when check-ins at one location interleave statement by statement, the
\* number of open sessions at the location never exceeds total_slots (two
\* check-ins racing for the last slot create at most one session).
C28_OpenSessionsWithinTotal ==
    \A l \in DOMAIN locs :
        Cardinality({i \in OpenSessions : sessions[i].parking_location_id = l})
            <= locs[l].total_slots

\* C29: in every reachable state the driveUpCheckOut of any open session by an
\* employee of the session's location is admitted; hence, check-outs being fair
\* and no check-in coming, every open session is eventually closed and
\* available_slots eventually equals total_slots.
C29_CheckOutAdmittedAndLotDrains ==
    /\ [](\A i \in OpenSessions :
             Run(DriveUpCheckOutReq(sessions[i].parking_location_id, i), db, now).r.code = 200)
    /\ <>(/\ OpenSessions = {}
          /\ \A l \in DOMAIN locs : locs[l].available_slots = locs[l].total_slots)

\* C30: on a location whose floor(total_slots * 0.70) is 0 (total_slots = 1)
\* every createBooking is rejected with capacity reached, and the availability
\* preview answers isBookable = false with slotsAvailableForBooking = 0 for
\* every window, even when no booking exists.
C30_SingleSlotLotNeverBookable ==
    \A loc \in DOMAIN locs :
        locs[loc].total_slots = 1 =>
            /\ \A b \in DOMAIN bookings : bookings[b].parking_location_id # loc
            /\ \A s, e \in {now, 2 * TickMinutes, 3 * TickMinutes} :
                  LET create  == Run(CreateBookingReq("u1", loc, s, e, ""), db, now)
                      preview == Run(BookingAvailabilityReq(loc, s, e), db, now)
                  IN  (s >= now /\ e >= s) =>
                          /\ create.r.code = 400
                          /\ create.d = db
                          /\ preview.r.code = 200
                          /\ preview.r.body.isBookable = FALSE
                          /\ preview.r.body.slotsAvailableForBooking = 0
                          /\ preview.r.body.currentBookedCountInSlot = 0

\* a lot of one slot, later in the day, its slot taken by a drive-up and no
\* booking in the ledger: a booking of a coming window is refused
C30_Witness ==
    /\ locs[1].total_slots = 1
    /\ bookings = <<>>
    /\ OpenSessions # {}
    /\ now > 0
    /\ Run(CreateBookingReq("u1", 1, 2 * TickMinutes, 3 * TickMinutes, ""), db, now).r.code = 400
    /\ ~Run(BookingAvailabilityReq(1, 2 * TickMinutes, 3 * TickMinutes), db, now).r.body.isBookable

====
